---- MODULE Spec2Model ----
(***************************************************************************)
(* A model of radarhf_waves.py: the WLS file decoder (class Wave) and the  *)
(* de-duplicating loader (wave2db) that writes wave observations into the  *)
(* waves.values table.                                                     *)
(*                                                                         *)
(* Text.  A line of the file is a record [k, f, cols]: k is the kind of    *)
(* line the code's prefix/substring tests tell apart, f its whitespace-    *)
(* separated fields, cols the column names of a header line.  A field      *)
(* (token) and a cell of a DataFrame are records [k, n]:                   *)
(*   Num(n)    the numeral n (a number once parsed)                        *)
(*   Sentinel  the text 999.00 (read_csv's na_values)                      *)
(*   Num(999)  the texts 999 and 999.0, which read_csv takes for 999.00    *)
(*   NAText    one of pandas' default NA strings: NA, nan, null, None, N/A *)
(*   Text      text that is no number and no NA string, e.g. abc           *)
(*   Big       the numeral 3000000000 (a number above C's INT_MAX)         *)
(*   NaN       a missing value (cells only)                                *)
(* Heights, periods and directions are floats in the file; the model keeps *)
(* them as integer-valued numerals (float() of a number changes nothing    *)
(* the claims read).                                                       *)
(***************************************************************************)
EXTENDS Integers, Sequences, FiniteSets, Bags, TLC

VARIABLES
  store,    \* waves.values, committed rows: a bag (the table has no key in this code)
  pc,       \* pc[p]: where loader p is in wave2db
  site,     \* site[p]: site_name of the current (or last) call
  file,     \* file[p]: content_raw of the current (or last) call
  wave,     \* wave[p]: the Wave object (data_tables, diagnostics, exception)
  todo,     \* todo[p]: the (rcell_number, row) pairs the loops have still to visit
  cand,     \* cand[p]: params_insert of the row whose SELECT found nothing
  tx,       \* tx[p]: rows inserted by p's open transaction, not yet committed
  outcome,  \* outcome[p]: how the last call of p ended
  before,   \* before[p]: store as it was when the current (or last) call began
  rerun,    \* rerun[p]: the call repeats the call before it, same file and site
  loaded,   \* the well-formed rows of the files of the earlier committed calls
  runs      \* number of calls of wave2db made so far

vars == <<store, pc, site, file, wave, todo, cand, tx, outcome, before, rerun,
          loaded, runs>>

----------------------------------------------------------------------------
(* Bounds of the model *)

NLoaders == 2
MaxRuns == 2
MaxRows == 2
MaxLines == 4
MaxBlockRows == 3

Procs == 1..NLoaders

----------------------------------------------------------------------------
(* Tokens and cells *)

Num(n) == [k |-> "num", n |-> n]
Sentinel == [k |-> "999.00", n |-> 0]
NAText == [k |-> "na", n |-> 0]
Text == [k |-> "text", n |-> 0]
Big == [k |-> "big", n |-> 0]
NaN == [k |-> "nan", n |-> 0]

Range(s) == {s[i] : i \in 1..Len(s)}

Max(a, b) == IF a >= b THEN a ELSE b

\* Lines, as the code's tests classify them; cols are the names a
\* %TableColumnTypes: line declares
TypesLine(cols) == [k |-> "types", f |-> <<>>, cols |-> cols]    \* %TableColumnTypes: c1 c2 ...
StartLine == [k |-> "start", f |-> <<>>, cols |-> <<>>]          \* %TableStart:
EndLine == [k |-> "end", f |-> <<>>, cols |-> <<>>]              \* %TableEnd:
RangeCellLine(tok) == [k |-> "rangecell", f |-> <<tok>>, cols |-> <<>>]   \* % RangeCell: tok
CommentLine == [k |-> "comment", f |-> <<>>, cols |-> <<>>]      \* %% ...
DataLine(fields) == [k |-> "data", f |-> fields, cols |-> <<>>]  \* fields; <<>> is a blank line

\* line.startswith('%')
StartsWithPercent(line) == line.k # "data"

----------------------------------------------------------------------------
(* Wave._parse_tables, step 1: the global column header *)

\* The mutant: a built-in header is used when the file declares none.
global_header_default(content_raw) ==
  LET idx == {i \in 1..Len(content_raw) : content_raw[i].k = "types"}
  IN IF idx = {} THEN <<"MWHT", "RCLL">>
     ELSE content_raw[CHOOSE i \in idx : \A j \in idx : i <= j].cols

global_header(content_raw) ==
  LET idx == {i \in 1..Len(content_raw) : content_raw[i].k = "types"}
  IN IF idx = {} THEN <<>>
     ELSE content_raw[CHOOSE i \in idx : \A j \in idx : i <= j].cols

(* step 2: the %TableStart ... %TableEnd blocks.  st is the loop's state     *)
(* (table_blocks, current_block, in_block) before line i.                    *)
RECURSIVE scan_blocks(_, _, _)
scan_blocks(content_raw, i, st) ==
  IF i > Len(content_raw) THEN st.table_blocks
  ELSE LET line == content_raw[i]
       IN IF line.k = "start"
          THEN scan_blocks(content_raw, i + 1,
                 [st EXCEPT !.in_block = TRUE, !.current_block = <<>>])
          ELSE IF line.k = "end"
          THEN scan_blocks(content_raw, i + 1,
                 [st EXCEPT !.in_block = FALSE,
                            !.table_blocks = Append(@, st.current_block)])
          ELSE IF st.in_block
          THEN scan_blocks(content_raw, i + 1,
                 [st EXCEPT !.current_block = Append(@, line)])
          ELSE scan_blocks(content_raw, i + 1, st)

table_blocks(content_raw) ==
  scan_blocks(content_raw, 1,
              [table_blocks |-> <<>>, current_block |-> <<>>, in_block |-> FALSE])

----------------------------------------------------------------------------
(* pandas.read_csv(io.StringIO(data_str), sep=r'\s+', header=None,          *)
(* names=global_header, na_values='999.00') on the block's data lines.       *)
(* Blank lines are skipped.  The parser expects max(fields of the first      *)
(* line, len(names)) fields: a later line with more raises ParserError, a    *)
(* line with fewer is padded with NaN, and when the first line has more      *)
(* fields than names the leading extra fields become the index, so the       *)
(* names label the last len(names) fields.  A name given twice is refused    *)
(* before any line is read: ValueError("Duplicate names are not allowed.").  *)

ColIndex(names, c) == CHOOSE i \in 1..Len(names) : names[i] = c

\* the NA values: for na_values='999.00' the parser takes the spellings 999.00,
\* 999.0 and 999 (the float 999.0) for NaN, next to its default NA strings
\* (keep_default_na is left on)
na_filter(tok) ==
  IF tok = Sentinel \/ tok = Num(999) \/ tok = NAText THEN NaN ELSE tok

read_csv(data_lines, names) ==
  LET lines == SelectSeq(data_lines, LAMBDA l : l.f # <<>>)
  IN IF Cardinality(Range(names)) < Len(names)
     THEN [err |-> "ValueError", rows |-> <<>>]
     ELSE IF lines = <<>> THEN [err |-> "none", rows |-> <<>>]
     ELSE LET width == Max(Len(lines[1].f), Len(names))
              lead == width - Len(names)
              cell(l, j) == IF j > Len(l.f) THEN NaN ELSE na_filter(l.f[j])
          IN IF \E i \in 1..Len(lines) : Len(lines[i].f) > width
             THEN [err |-> "ParserError", rows |-> <<>>]
             ELSE [err |-> "none",
                   rows |-> [i \in 1..Len(lines) |->
                              [c \in Range(names) |->
                                 cell(lines[i], lead + ColIndex(names, c))]]]

----------------------------------------------------------------------------
(* Wave._parse_tables, step 3: one block *)

\* self.data_tables[key] = frame: a dict keeps the place of a key it has already
dict_set(tables, key, frame) ==
  IF \E i \in 1..Len(tables) : tables[i].rc = key
  THEN [i \in 1..Len(tables) |->
          IF tables[i].rc = key THEN [rc |-> key, rows |-> frame] ELSE tables[i]]
  ELSE Append(tables, [rc |-> key, rows |-> frame])

\* int(text): the number of an integer literal; ValueError (ok = FALSE) otherwise
int_literal(tok) ==
  IF tok.k \in {"num", "big"} THEN [ok |-> TRUE, v |-> tok]
  ELSE [ok |-> FALSE, v |-> Num(-1)]

\* the loop over the block's lines: range_cell is what the last annotation set
range_cell_of(block) ==
  LET idx == {i \in 1..Len(block) : block[i].k = "rangecell"}
  IN IF idx = {} THEN Num(-1)
     ELSE int_literal(block[CHOOSE i \in idx : \A j \in idx : j <= i].f[1]).v

bad_range_cell(block) ==
  \E i \in 1..Len(block) :
     block[i].k = "rangecell" /\ ~int_literal(block[i].f[1]).ok

data_lines_of(block) == SelectSeq(block, LAMBDA l : ~StartsWithPercent(l))

\* the order of two range-cell numbers (Big is the numeral 3000000000)
KeyLeq(a, b) == IF a.k = "big" THEN b.k = "big"
                ELSE b.k = "big" \/ a.n <= b.n

RECURSIVE SortedKeys(_)
SortedKeys(S) ==
  IF S = {} THEN <<>>
  ELSE LET m == CHOOSE x \in S : \A y \in S : KeyLeq(x, y)
       IN <<m>> \o SortedKeys(S \ {m})

\* for rc_num, group_df in df_block.groupby('RCLL'): data_tables[rc_num] = group_df
RECURSIVE assign_groups(_, _, _, _)
assign_groups(tables, keys, i, rows) ==
  IF i > Len(keys) THEN tables
  ELSE assign_groups(
         dict_set(tables, keys[i],
                  SelectSeq(rows, LAMBDA r : r["RCLL"] = keys[i])),
         keys, i + 1, rows)

\* One pass of the loop over table_blocks; acc is (data_tables, diagnostics,
\* exception raised) before the block.
parse_block(acc, block, header) ==
  LET range_cell == range_cell_of(block)
      diag1 == acc.diag \cup (IF bad_range_cell(block) THEN {"bad_rangecell"} ELSE {})
      data == data_lines_of(block)
      df == read_csv(data, header)
  IN IF data = <<>> THEN [acc EXCEPT !.diag = diag1]
     ELSE IF df.err # "none"
     THEN [acc EXCEPT !.diag = diag1, !.raised = df.err]
     ELSE IF range_cell # Num(-1)
     THEN [acc EXCEPT !.diag = diag1,
                      !.tables = dict_set(acc.tables, range_cell, df.rows)]
     ELSE IF "RCLL" \in Range(header)
     THEN LET kept == SelectSeq(df.rows, LAMBDA r : r["RCLL"] # NaN)
          IN IF kept = <<>> THEN [acc EXCEPT !.diag = diag1]
             ELSE IF \E i \in 1..Len(kept) : kept[i]["RCLL"].k = "text"
             THEN [acc EXCEPT !.diag = diag1, !.raised = "ValueError"]
             ELSE [acc EXCEPT !.diag = diag1,
                     !.tables = assign_groups(acc.tables,
                                  SortedKeys({kept[i]["RCLL"] : i \in 1..Len(kept)}),
                                  1, kept)]
     ELSE [acc EXCEPT !.diag = diag1 \cup {"block_omitted"}]

RECURSIVE parse_blocks(_, _, _, _)
parse_blocks(acc, blocks, i, header) ==
  IF i > Len(blocks) \/ acc.raised # "none" THEN acc
  ELSE parse_blocks(parse_block(acc, blocks[i], header), blocks, i + 1, header)

EmptyWave == [tables |-> <<>>, diag |-> {}, raised |-> "none"]

parse_tables(content_raw) ==
  LET header == global_header(content_raw)
      blocks == table_blocks(content_raw)
  IN IF header = <<>> THEN [EmptyWave EXCEPT !.diag = {"no_header"}]
     ELSE IF blocks = <<>> THEN [EmptyWave EXCEPT !.diag = {"no_blocks"}]
     ELSE parse_blocks(EmptyWave, blocks, 1, header)

----------------------------------------------------------------------------
(* Wave._convert_data_types: pd.to_numeric(errors='coerce') on the columns   *)
(* the type table knows; text that is no number becomes NaN.                 *)

DATA_TYPES == {"TIME", "MWHT", "MWPD", "WAVB", "WNDB", "ACNT", "DIST", "RCLL",
               "WDPT", "MTHD", "FLAG", "TYRS", "TMON", "TDAY", "THRS", "TMIN",
               "TSEC", "PMWH", "LOND", "LATD"}

to_numeric(cell) == IF cell.k \in {"num", "big"} THEN cell ELSE NaN

convert_data_types(w) ==
  IF w.raised # "none" THEN w
  ELSE [w EXCEPT !.tables =
          [t \in 1..Len(w.tables) |->
             [rc |-> w.tables[t].rc,
              rows |-> [i \in 1..Len(w.tables[t].rows) |->
                          [c \in DOMAIN w.tables[t].rows[i] |->
                             IF c \in DATA_TYPES
                             THEN to_numeric(w.tables[t].rows[i][c])
                             ELSE w.tables[t].rows[i][c]]]]]]

\* what stands for the lines of a path that names no file: open(file_wls, 'rb')
\* raises FileNotFoundError
NoSuchFile == <<[k |-> "absent", f |-> <<>>, cols |-> <<>>]>>

\* Wave(file): _process_wls_file.  A file that is not there is reported and the
\* Wave stays empty, without an exception; else the file is read into
\* content_raw, parsed and its columns converted.
process_wls_file(file_wls) ==
  IF file_wls = NoSuchFile THEN [EmptyWave EXCEPT !.diag = {"not_found"}]
  ELSE convert_data_types(parse_tables(file_wls))

----------------------------------------------------------------------------
(* Wave.get_time and Wave.get_wave_values on one row of a table *)

TimeCols == <<"TYRS", "TMON", "TDAY", "THRS", "TMIN", "TSEC">>
ValueCols == <<"MWHT", "MWPD", "WAVB">>

IsLeap(y) == (y % 4 = 0 /\ y % 100 # 0) \/ y % 400 = 0

DaysInMonth(y, m) ==
  IF m = 2 THEN (IF IsLeap(y) THEN 29 ELSE 28)
  ELSE IF m \in {4, 6, 9, 11} THEN 30 ELSE 31

\* what datetime(y, mo, d, h, mi, s) accepts
ValidDateTime(t) ==
  /\ t[1] >= 1 /\ t[1] <= 9999
  /\ t[2] >= 1 /\ t[2] <= 12
  /\ t[3] >= 1 /\ t[3] <= DaysInMonth(t[1], t[2])
  /\ t[4] >= 0 /\ t[4] <= 23
  /\ t[5] >= 0 /\ t[5] <= 59
  /\ t[6] >= 0 /\ t[6] <= 59

\* int(row[c]) for the six columns, then datetime(...): KeyError for a column
\* the header lacks, ValueError for NaN or an impossible date (all three are
\* caught per row), OverflowError for a number above C's INT_MAX (not caught
\* per row).
get_time(row) ==
  IF \E i \in 1..6 : TimeCols[i] \notin DOMAIN row \/ row[TimeCols[i]].k \notin {"num", "big"}
  THEN [st |-> "skip", dt |-> <<>>]
  ELSE IF \E i \in 1..6 : row[TimeCols[i]].k = "big"
  THEN [st |-> "overflow", dt |-> <<>>]
  ELSE LET t == [i \in 1..6 |-> row[TimeCols[i]].n]
       IN IF ValidDateTime(t) THEN [st |-> "ok", dt |-> t]
          ELSE [st |-> "skip", dt |-> <<>>]

\* float(row[c]) for the three columns: KeyError for a missing column; NaN stays
get_wave_values(row) ==
  IF \E i \in 1..3 : ValueCols[i] \notin DOMAIN row
  THEN [st |-> "skip", v |-> <<>>]
  ELSE [st |-> "ok", v |-> [i \in 1..3 |-> row[ValueCols[i]]]]

\* current_date.strftime('%Y-%m-%d %H:%M:00.00')
strftime(dt) == [dt EXCEPT ![6] = 0]

\* One pass of the loop body up to the SELECT: "skip" (continue, or an exception
\* caught per row), "overflow" (an exception that leaves the loops) or "ok" with
\* the parameters of the statements.
row_candidate(id_site, rcell_number, row) ==
  LET t == get_time(row)
      w == get_wave_values(row)
  IN IF t.st # "ok" THEN [st |-> t.st, params |-> <<>>]
     ELSE IF w.st # "ok" \/ \E i \in 1..3 : w.v[i] = NaN
     THEN [st |-> "skip", params |-> <<>>]
     ELSE [st |-> "ok",
           params |-> [fk_site |-> id_site, fk_range |-> rcell_number,
                       datetime |-> strftime(t.dt), height |-> w.v[1],
                       period |-> w.v[2], direction |-> w.v[3]]]

\* SELECT code, pk FROM waves.sites: the sites the store knows
id_sites == [s \in {"PRIO", "SILL"} |-> IF s = "PRIO" THEN 1 ELSE 2]

\* for rcell_number, tabla in wave.data_tables.items(): for index, row in ...
RECURSIVE all_rows(_, _)
all_rows(tables, t) ==
  IF t > Len(tables) THEN <<>>
  ELSE [i \in 1..Len(tables[t].rows) |-> [rc |-> tables[t].rc, row |-> tables[t].rows[i]]]
       \o all_rows(tables, t + 1)

SameTriple(a, b) ==
  a.fk_site = b.fk_site /\ a.fk_range = b.fk_range /\ a.datetime = b.datetime

\* The mutant: the SELECT never finds a row.
select_exists_never(visible, params) == FALSE

\* SELECT 1 FROM waves.values WHERE datetime = %s AND fk_site = %s AND fk_range = %s
select_exists(visible, params) ==
  \E r \in BagToSet(visible) : SameTriple(r, params)

----------------------------------------------------------------------------
(* The inputs: files and site names *)

SeqsUpTo(S, lo, hi) == UNION {[1..n -> S] : n \in lo..hi}

HdrFull == <<"TYRS", "TMON", "TDAY", "THRS", "TMIN", "TSEC",
             "MWHT", "MWPD", "WAVB", "RCLL">>

\* a data line of a file with the full header: time 2022-02-dd 00:mi:ss
Row(yr, dd, mi, ss, mwht, rcll) ==
  DataLine(<<yr, Num(2), dd, Num(0), mi, ss, mwht, Num(2), Num(3), rcll>>)

\* the rows of the files for the loader, in the order in which a file holds them
LoadRows ==
  << Row(Num(2022), Num(1), Num(30), Num(0), Num(1), Num(3)),     \* a valid row
     Row(Num(2022), Num(30), Num(30), Num(0), Num(1), Num(3)),    \* 30 February
     Row(Num(2022), Num(1), Num(30), Sentinel, Num(1), Num(3)),   \* seconds 999.00
     Row(Num(2022), Num(1), Num(30), Num(0), Sentinel, Num(3)),   \* height 999.00
     Row(Num(2022), Num(1), Num(30), Num(15), Num(4), Num(3)),    \* the first row's minute, other seconds and height
     Row(Big, Num(1), Num(30), Num(0), Num(1), Num(3)),           \* year 3000000000
     Row(Num(2022), Num(1), Num(31), Num(0), Num(5), Num(3)) >>   \* the next minute

LoadRowPool == Range(LoadRows)

\* the rows of LoadRows that are well formed
ValidRows == {LoadRows[1], LoadRows[5], LoadRows[7]}

\* the subsequences of s of lo to hi elements
SubSeqsOf(s, lo, hi) ==
  { [n \in 1..Cardinality(I) |->
       s[CHOOSE i \in I : Cardinality({j \in I : j < i}) = n - 1]] :
    I \in {J \in SUBSET (1..Len(s)) : Cardinality(J) \in lo..hi} }

\* a block of the rows, with the annotation % RangeCell: 3 or (cells told by
\* RCLL) without
LoadBlock(annotated, rows) ==
  <<StartLine>> \o (IF annotated THEN <<RangeCellLine(Num(3))>> ELSE <<>>)
  \o rows \o <<EndLine>>

\* files for the loader: a path with no file; no header at all; one block of
\* one to MaxRows of the rows; two annotated blocks of one valid row
LoadFiles ==
  { NoSuchFile,
    <<StartLine, Row(Num(2022), Num(1), Num(30), Num(0), Num(1), Num(3)), EndLine>> }
  \cup { <<TypesLine(HdrFull)>> \o LoadBlock(FALSE, rows) :
           rows \in SubSeqsOf(LoadRows, 1, MaxRows) }
  \cup { <<TypesLine(HdrFull)>> \o LoadBlock(TRUE, <<r1>>) \o LoadBlock(TRUE, <<r2>>) :
           r1 \in ValidRows, r2 \in ValidRows }

\* files for concurrent loaders: one block of one row
ConcFiles ==
  { <<TypesLine(HdrFull)>> \o LoadBlock(a, <<r>>) : a \in BOOLEAN, r \in LoadRowPool }

\* STATIONS of waves2db.py; waves.sites (id_sites) holds PRIO and SILL, not VILA
SiteNames == {"SILL", "PRIO", "VILA"}

----------------------------------------------------------------------------
(* What a file says, read off its text: the rows that are well formed (as    *)
(* many fields as the header, a valid date-time, three numeric values) with  *)
(* the range cell of their block (its one integer annotation, else the row's *)
(* RCLL).  Used to state the claims, not by the model of the code.           *)

FieldOf(hdr, line, c) == line.f[ColIndex(hdr, c)]

\* a field that is null: equal to 999.00, or no number
NullField(tok) == tok.k \notin {"num", "big"} \/ tok = Num(999)

AsCell(tok) == IF NullField(tok) THEN NaN ELSE tok

WellFormedRow(hdr, line) ==
  /\ line.k = "data" /\ Len(line.f) = Len(hdr)
  /\ Range(TimeCols) \cup Range(ValueCols) \subseteq Range(hdr)
  /\ \A c \in Range(TimeCols) \cup Range(ValueCols) :
        FieldOf(hdr, line, c).k = "num" /\ ~NullField(FieldOf(hdr, line, c))
  /\ ValidDateTime([i \in 1..6 |-> FieldOf(hdr, line, TimeCols[i]).n])

BlockAnnotations(block) ==
  {block[i].f[1] : i \in {j \in 1..Len(block) : block[j].k = "rangecell"}}

FileObservations(f) ==
  LET hdr == global_header(f)
      blocks == table_blocks(f)
      cellOf(b, line) ==
        IF BlockAnnotations(b) # {} THEN CHOOSE a \in BlockAnnotations(b) : TRUE
        ELSE IF "RCLL" \in Range(hdr) THEN AsCell(FieldOf(hdr, line, "RCLL"))
        ELSE NaN
      obs(b, line) ==
        [fk_range |-> cellOf(b, line),
         ts |-> [j \in 1..6 |-> FieldOf(hdr, line, TimeCols[j]).n],
         height |-> FieldOf(hdr, line, "MWHT"),
         period |-> FieldOf(hdr, line, "MWPD"),
         direction |-> FieldOf(hdr, line, "WAVB")]
      good(b) ==
        {i \in 1..Len(b) : /\ WellFormedRow(hdr, b[i])
                           /\ Cardinality(BlockAnnotations(b)) <= 1
                           /\ cellOf(b, b[i]).k = "num"
                           /\ cellOf(b, b[i]).n >= 0}
  IN IF hdr = <<>> THEN {}
     ELSE UNION { {obs(blocks[n], blocks[n][i]) : i \in good(blocks[n])} :
                  n \in 1..Len(blocks) }

----------------------------------------------------------------------------
(* State *)

Init ==
  /\ store = EmptyBag
  /\ pc = [p \in Procs |-> "idle"]
  /\ site = [p \in Procs |-> "PRIO"]
  /\ file = [p \in Procs |-> <<>>]
  /\ wave = [p \in Procs |-> EmptyWave]
  /\ todo = [p \in Procs |-> <<>>]
  /\ cand = [p \in Procs |-> <<>>]
  /\ tx = [p \in Procs |-> EmptyBag]
  /\ outcome = [p \in Procs |-> "none"]
  /\ before = [p \in Procs |-> EmptyBag]
  /\ rerun = [p \in Procs |-> FALSE]
  /\ loaded = {}
  /\ runs = 0

\* wave2db(site_name, path, file_in) is called on a file
Call(p, site_name, content_raw) ==
  /\ pc[p] = "idle"
  /\ runs < MaxRuns
  /\ runs' = runs + 1
  /\ pc' = [pc EXCEPT ![p] = "called"]
  /\ site' = [site EXCEPT ![p] = site_name]
  /\ file' = [file EXCEPT ![p] = content_raw]
  /\ before' = [before EXCEPT ![p] = store]
  /\ outcome' = [outcome EXCEPT ![p] = "running"]
  /\ UNCHANGED <<store, wave, todo, cand, tx, rerun, loaded>>

\* wave2db is called again with the site and the file of the call that has just
\* gone through its loops (the file is still in the directory)
CallAgain(p) ==
  /\ pc[p] = "done"
  /\ outcome[p] \in {"ok", "aborted"}
  /\ runs < MaxRuns
  /\ runs' = runs + 1
  /\ pc' = [pc EXCEPT ![p] = "called"]
  /\ rerun' = [rerun EXCEPT ![p] = TRUE]
  /\ before' = [before EXCEPT ![p] = store]
  /\ outcome' = [outcome EXCEPT ![p] = "running"]
  /\ wave' = [wave EXCEPT ![p] = EmptyWave]
  /\ UNCHANGED <<store, site, file, todo, cand, tx, loaded>>

\* The mutant: the site is not looked up; rows are written under key 0.
resolve_site_any(site_name) ==
  IF site_name \in DOMAIN id_sites THEN id_sites[site_name] ELSE 0

\* id_sites.get(site_name): the key, or -1 for None
resolve_site(site_name) ==
  IF site_name \in DOMAIN id_sites THEN id_sites[site_name] ELSE -1

\* the well-formed rows of the file of p's call, as the loader is to file them
Loaded(p) ==
  { [fk_site |-> resolve_site(site[p]), fk_range |-> o.fk_range, ts |-> o.ts] :
    o \in FileObservations(file[p]) }

\* the call is over and its objects are gone; the caller goes on to another file
Return(p) ==
  /\ pc[p] = "done"
  /\ pc' = [pc EXCEPT ![p] = "idle"]
  /\ site' = [site EXCEPT ![p] = "PRIO"]
  /\ file' = [file EXCEPT ![p] = <<>>]
  /\ wave' = [wave EXCEPT ![p] = EmptyWave]
  /\ outcome' = [outcome EXCEPT ![p] = "none"]
  /\ before' = [before EXCEPT ![p] = EmptyBag]
  /\ rerun' = [rerun EXCEPT ![p] = FALSE]
  /\ loaded' = IF outcome[p] = "ok" THEN loaded \cup Loaded(p) ELSE loaded
  /\ UNCHANGED <<store, todo, cand, tx, runs>>

\* wave = Wave(full_path_file); an exception of the constructor leaves wave2db
Construct(p) ==
  /\ pc[p] = "called"
  /\ LET w == process_wls_file(file[p])
     IN /\ wave' = [wave EXCEPT ![p] = w]
        /\ IF w.raised # "none"
           THEN /\ pc' = [pc EXCEPT ![p] = "done"]
                /\ outcome' = [outcome EXCEPT ![p] = "raised"]
           ELSE /\ pc' = [pc EXCEPT ![p] = "constructed"]
                /\ UNCHANGED outcome
  /\ UNCHANGED <<store, site, file, todo, cand, tx, before, rerun, loaded, runs>>

\* connection = get_db_connection(db_json_file), opened
Connect(p) ==
  /\ pc[p] = "constructed"
  /\ pc' = [pc EXCEPT ![p] = "connected"]
  /\ UNCHANGED <<store, site, file, wave, todo, cand, tx, outcome, before, rerun,
                 loaded, runs>>

\* get_db_connection returned None: "Abortando", return
ConnectFail(p) ==
  /\ pc[p] = "constructed"
  /\ pc' = [pc EXCEPT ![p] = "done"]
  /\ outcome' = [outcome EXCEPT ![p] = "noconn"]
  /\ UNCHANGED <<store, site, file, wave, todo, cand, tx, before, rerun, loaded, runs>>

\* the site is known: the loops over data_tables begin
ResolveSite(p) ==
  /\ pc[p] = "connected"
  /\ resolve_site(site[p]) # -1
  /\ pc' = [pc EXCEPT ![p] = "rows"]
  /\ todo' = [todo EXCEPT ![p] = all_rows(wave[p].tables, 1)]
  /\ UNCHANGED <<store, site, file, wave, cand, tx, outcome, before, rerun, loaded, runs>>

\* id_site is None: the error is printed and the call returns; the with block
\* commits a transaction that wrote nothing
UnknownSite(p) ==
  /\ pc[p] = "connected"
  /\ resolve_site(site[p]) = -1
  /\ pc' = [pc EXCEPT ![p] = "done"]
  /\ outcome' = [outcome EXCEPT ![p] = "unknown_site"]
  /\ store' = store (+) tx[p]
  /\ tx' = [tx EXCEPT ![p] = EmptyBag]
  /\ UNCHANGED <<site, file, wave, todo, cand, before, rerun, loaded, runs>>

Candidate(p) == row_candidate(resolve_site(site[p]), todo[p][1].rc, todo[p][1].row)

\* a row that is skipped: continue, or ValueError/TypeError/KeyError caught
SkipRow(p) ==
  /\ pc[p] = "rows" /\ todo[p] # <<>>
  /\ Candidate(p).st = "skip"
  /\ todo' = [todo EXCEPT ![p] = Tail(@)]
  /\ UNCHANGED <<store, pc, site, file, wave, cand, tx, outcome, before, rerun,
                 loaded, runs>>

\* an exception the row's except clause does not name (OverflowError) leaves the
\* with block: the transaction is rolled back, the outer except prints it
RowError(p) ==
  /\ pc[p] = "rows" /\ todo[p] # <<>>
  /\ Candidate(p).st = "overflow"
  /\ tx' = [tx EXCEPT ![p] = EmptyBag]
  /\ todo' = [todo EXCEPT ![p] = <<>>]
  /\ pc' = [pc EXCEPT ![p] = "done"]
  /\ outcome' = [outcome EXCEPT ![p] = "aborted"]
  /\ UNCHANGED <<store, site, file, wave, cand, before, rerun, loaded, runs>>

\* cursor.execute(sql_select, ...); existe = bool(cursor.fetchone()).  The
\* statement sees the committed rows and the rows of its own transaction.
Select(p) ==
  /\ pc[p] = "rows" /\ todo[p] # <<>>
  /\ Candidate(p).st = "ok"
  /\ IF select_exists(store (+) tx[p], Candidate(p).params)
     THEN /\ todo' = [todo EXCEPT ![p] = Tail(@)]
          /\ UNCHANGED <<pc, cand>>
     ELSE /\ pc' = [pc EXCEPT ![p] = "insert"]
          /\ cand' = [cand EXCEPT ![p] = Candidate(p).params]
          /\ UNCHANGED todo
  /\ UNCHANGED <<store, site, file, wave, tx, outcome, before, rerun, loaded, runs>>

\* cursor.execute(sql_insert, params_insert)
Insert(p) ==
  /\ pc[p] = "insert"
  /\ tx' = [tx EXCEPT ![p] = @ (+) SetToBag({cand[p]})]
  /\ todo' = [todo EXCEPT ![p] = Tail(@)]
  /\ cand' = [cand EXCEPT ![p] = <<>>]
  /\ pc' = [pc EXCEPT ![p] = "rows"]
  /\ UNCHANGED <<store, site, file, wave, outcome, before, rerun, loaded, runs>>

\* the loops are over: the with block commits
Commit(p) ==
  /\ pc[p] = "rows" /\ todo[p] = <<>>
  /\ store' = store (+) tx[p]
  /\ tx' = [tx EXCEPT ![p] = EmptyBag]
  /\ pc' = [pc EXCEPT ![p] = "done"]
  /\ outcome' = [outcome EXCEPT ![p] = "ok"]
  /\ UNCHANGED <<site, file, wave, todo, cand, before, rerun, loaded, runs>>

\* psycopg2.Error from a statement or the commit: the transaction is rolled back
DbError(p) ==
  /\ pc[p] \in {"connected", "rows", "insert"}
  /\ tx' = [tx EXCEPT ![p] = EmptyBag]
  /\ todo' = [todo EXCEPT ![p] = <<>>]
  /\ cand' = [cand EXCEPT ![p] = <<>>]
  /\ pc' = [pc EXCEPT ![p] = "done"]
  /\ outcome' = [outcome EXCEPT ![p] = "dberror"]
  /\ UNCHANGED <<store, site, file, wave, before, rerun, loaded, runs>>

Step(p, Files) ==
  \/ \E s \in SiteNames, f \in Files : Call(p, s, f)
  \/ CallAgain(p)
  \/ Return(p)
  \/ Construct(p)
  \/ Connect(p)
  \/ ConnectFail(p)
  \/ ResolveSite(p)
  \/ UnknownSite(p)
  \/ SkipRow(p)
  \/ RowError(p)
  \/ Select(p)
  \/ Insert(p)
  \/ Commit(p)
  \/ DbError(p)

\* loaders on separate connections, interleaved statement by statement
Next == \E p \in Procs : Step(p, ConcFiles)

Spec == Init /\ [][Next]_vars

\* one loader, one call after the other
SeqNext == Step(1, LoadFiles)

SeqSpec == Init /\ [][SeqNext]_vars

----------------------------------------------------------------------------
(* The decoder alone: Wave(file) on files of any shape *)

HdrShort == <<"MWHT", "RCLL">>

DecodeAlphabet ==
  { StartLine, EndLine, CommentLine,
    RangeCellLine(Num(5)), RangeCellLine(Text),
    DataLine(<<Num(1), Num(3)>>), DataLine(<<Num(2), Num(7)>>),
    DataLine(<<Num(1), Text>>), DataLine(<<Num(999), NAText>>),
    DataLine(<<Num(1), Num(3), Num(9)>>), DataLine(<<>>) }

BlockRowPool ==
  { DataLine(<<Num(1), Num(3)>>), DataLine(<<Num(4), Num(3)>>),
    DataLine(<<Num(2), Num(7)>>), DataLine(<<Num(6), Sentinel>>) }

\* a path with no file; a header that names a column twice; any lines after no
\* header, a header with RCLL or one without; and one block of MaxBlockRows
\* rows under the header with RCLL
DecodeFiles ==
  { NoSuchFile,
    <<TypesLine(<<"MWHT", "MWHT">>), StartLine, DataLine(<<Num(1), Num(3)>>), EndLine>> }
  \cup
  { h \o body : h \in {<<>>, <<TypesLine(HdrShort)>>, <<TypesLine(<<"MWHT">>)>>},
                body \in SeqsUpTo(DecodeAlphabet, 0, MaxLines) }
  \cup { <<TypesLine(HdrShort), StartLine>> \o annot \o rows \o <<EndLine>> :
           annot \in {<<>>, <<RangeCellLine(Num(5))>>},
           rows \in SeqsUpTo(BlockRowPool, MaxBlockRows, MaxBlockRows) }

DecodeInit ==
  /\ store = EmptyBag
  /\ pc = [p \in Procs |-> IF p = 1 THEN "called" ELSE "idle"]
  /\ site = [p \in Procs |-> "PRIO"]
  /\ file \in {[p \in Procs |-> IF p = 1 THEN f ELSE <<>>] : f \in DecodeFiles}
  /\ wave = [p \in Procs |-> EmptyWave]
  /\ todo = [p \in Procs |-> <<>>]
  /\ cand = [p \in Procs |-> <<>>]
  /\ tx = [p \in Procs |-> EmptyBag]
  /\ outcome = [p \in Procs |-> IF p = 1 THEN "running" ELSE "none"]
  /\ before = [p \in Procs |-> EmptyBag]
  /\ rerun = [p \in Procs |-> FALSE]
  /\ loaded = {}
  /\ runs = 1

DecodeNext == Construct(1)

DecodeSpec == DecodeInit /\ [][DecodeNext]_vars

\* the constructor of p's Wave has run
Constructed(p) == outcome[p] # "none" /\ pc[p] # "called"

----------------------------------------------------------------------------
(* Claims *)

Rows(b) == BagToSet(b)

\* the rows the loops of p's call visit, in their order
TableRows(p) == all_rows(wave[p].tables, 1)

\* the triple under which the loader is to file an observation read off the text
TripleOf(id, o) ==
  [fk_site |-> id, fk_range |-> o.fk_range, datetime |-> [o.ts EXCEPT ![6] = 0]]

Finished(p) == pc[p] = "done" /\ outcome[p] \in {"ok", "aborted"}

\* C1: whatever the interleaving of loaders that derive the same (site, range
\* cell, minute), the store never holds two observations with one triple.
C1_NoDuplicateTriple ==
  \A r \in Rows(store) :
     /\ CopiesIn(r, store) = 1
     /\ \A r2 \in Rows(store) : SameTriple(r, r2) => r2 = r

\* C2: a call that repeats the previous call's file and known site performs no
\* insert (every candidate is found present) and leaves the store as the first
\* call left it.
C2_IdempotentLoad ==
  rerun[1] =>
     /\ pc[1] # "insert"
     /\ tx[1] = EmptyBag
     /\ (Finished(1) => store = before[1])

\* C3: after decode and load with a known site, every well-formed row of the
\* file whose triple the store did not hold, and that no other row of the file
\* shares, has exactly one observation, with the row's values.
C3_RoundTrip ==
  (pc[1] = "done" /\ outcome[1] = "ok") =>
     \A o \in FileObservations(file[1]) :
        LET t == TripleOf(resolve_site(site[1]), o)
        IN (/\ ~\E r \in Rows(before[1]) : SameTriple(r, t)
            /\ \A o2 \in FileObservations(file[1]) :
                  TripleOf(0, o2) = TripleOf(0, o) => o2 = o)
           => \E r \in Rows(store) :
                 /\ SameTriple(r, t) /\ CopiesIn(r, store) = 1
                 /\ r.height = o.height /\ r.period = o.period
                 /\ r.direction = o.direction
                 /\ \A r2 \in Rows(store) : SameTriple(r2, t) => r2 = r

\* C4: every stored or pending timestamp has seconds zero, and once two files
\* with a well-formed row for the same site, range cell and minute, differing in
\* the seconds, have been loaded one after the other, exactly one observation
\* has that triple.
C4_MinuteDedup ==
  /\ \A r \in Rows(store) \cup Rows(tx[1]) : r.datetime[6] = 0
  /\ (pc[1] = "done" /\ outcome[1] = "ok") =>
       \A a \in loaded, b \in Loaded(1) :
          (/\ a.fk_site = b.fk_site /\ a.fk_range = b.fk_range
           /\ [a.ts EXCEPT ![6] = 0] = [b.ts EXCEPT ![6] = 0]
           /\ a.ts[6] # b.ts[6])
          => \E r \in Rows(store) :
                /\ SameTriple(r, TripleOf(a.fk_site, a))
                /\ CopiesIn(r, store) = 1
                /\ \A r2 \in Rows(store) :
                      SameTriple(r2, TripleOf(a.fk_site, a)) => r2 = r

\* C5: a call with a site name the store does not know never reaches the loops,
\* writes nothing and leaves the store as it was before the call.
C5_UnknownSiteNoWrites ==
  (site[1] \notin DOMAIN id_sites /\ outcome[1] # "none") =>
     /\ pc[1] \notin {"rows", "insert"}
     /\ outcome[1] \notin {"ok", "aborted"}
     /\ tx[1] = EmptyBag
     /\ store = before[1]

\* C5 witness: the call ended as unknown site, on a file with a row that would
\* have been inserted, and the store (not empty) is as before.
C5_Witness ==
  /\ pc[1] = "done" /\ outcome[1] = "unknown_site"
  /\ \E i \in 1..Len(TableRows(1)) :
        row_candidate(1, TableRows(1)[i].rc,
                      TableRows(1)[i].row).st = "ok"
  /\ store # EmptyBag /\ store = before[1]

HasTypesLine(f) == \E i \in 1..Len(f) : f[i].k = "types"

\* C6: a file with no %TableColumnTypes: line decodes to no table at all, with
\* the missing-header diagnostic and nothing else, whatever blocks it holds.
C6_MissingHeader ==
  (Constructed(1) /\ file[1] # NoSuchFile /\ ~HasTypesLine(file[1])) =>
     wave[1] = [tables |-> <<>>, diag |-> {"no_header"}, raised |-> "none"]

\* C6 witness: such a file with a closed block that holds a data line.
C6_Witness ==
  /\ Constructed(1) /\ ~HasTypesLine(file[1])
  /\ \E n \in 1..Len(table_blocks(file[1])) :
        \E i \in 1..Len(table_blocks(file[1])[n]) :
           /\ table_blocks(file[1])[n][i].k = "data"
           /\ table_blocks(file[1])[n][i].f # <<>>
  /\ wave[1].tables = <<>>

\* the cells of a data line under the header, once typed
CellsOf(hdr, line) ==
  [c \in Range(hdr) |-> AsCell(FieldOf(hdr, line, c))]

\* the rows a block is to give range cell rc: all of them under an integer
\* annotation; else those whose RCLL is rc; none without annotation and RCLL
ExpectedRows(hdr, block, rc) ==
  LET lines == SelectSeq(block, LAMBDA l : l.k = "data" /\ l.f # <<>>)
      annot == {a \in BlockAnnotations(block) : a.k = "num"}
  IN IF annot # {}
     THEN (IF rc \in annot THEN [i \in 1..Len(lines) |-> CellsOf(hdr, lines[i])]
           ELSE <<>>)
     ELSE IF "RCLL" \in Range(hdr)
     THEN LET mine == SelectSeq(lines,
                        LAMBDA l : AsCell(FieldOf(hdr, l, "RCLL")) = rc)
          IN [i \in 1..Len(mine) |-> CellsOf(hdr, mine[i])]
     ELSE <<>>

DecodedRows(w, rc) ==
  IF \E t \in 1..Len(w.tables) : w.tables[t].rc = rc
  THEN w.tables[CHOOSE t \in 1..Len(w.tables) : w.tables[t].rc = rc].rows
  ELSE <<>>

\* a file of one block, at most one annotation in it, and data lines of as many
\* fields as the header
OneRegularBlock(f) ==
  /\ HasTypesLine(f)
  /\ Len(table_blocks(f)) = 1
  /\ Cardinality({i \in 1..Len(table_blocks(f)[1]) :
                    table_blocks(f)[1][i].k = "rangecell"}) <= 1
  /\ \A i \in 1..Len(table_blocks(f)[1]) :
        table_blocks(f)[1][i].k = "data" =>
           Len(table_blocks(f)[1][i].f) \in {0, Len(global_header(f))}

\* C7: a block's rows all go to its annotation's range cell; without annotation
\* they are grouped by RCLL, rows with a null RCLL dropped; with neither, the
\* block gives no rows.
C7_VariantResolution ==
  (Constructed(1) /\ OneRegularBlock(file[1])) =>
     /\ wave[1].raised = "none"
     /\ \A rc \in {Num(3), Num(5), Num(7)} \cup {wave[1].tables[t].rc : t \in 1..Len(wave[1].tables)} :
           DecodedRows(wave[1], rc) =
              ExpectedRows(global_header(file[1]), table_blocks(file[1])[1], rc)

\* a row with a null or impossible timestamp field, or a null value
ProblemRow(row) ==
  \/ \E c \in Range(TimeCols) \cup Range(ValueCols) : c \notin DOMAIN row
  \/ \E c \in Range(TimeCols) \cup Range(ValueCols) : row[c] = NaN
  \/ \E c \in Range(TimeCols) : row[c].k = "big"
  \/ ~ValidDateTime([i \in 1..6 |-> row[TimeCols[i]].n])

\* C8: a row with a null or invalid timestamp or a null value is skipped and the
\* load goes on: it does not abort, nothing is written for such a row, and every
\* valid row after it is in the store when the call has ended.
C8_RowProblemsSkipped ==
  /\ outcome[1] # "aborted"
  /\ \A r \in Rows(store) \cup Rows(tx[1]) :
        ValidDateTime(r.datetime) /\ NaN \notin {r.height, r.period, r.direction}
  /\ Finished(1) =>
       LET rows == TableRows(1)
       IN \A i \in 1..Len(rows), j \in 1..Len(rows) :
             (i < j /\ ProblemRow(rows[i].row) /\ ~ProblemRow(rows[j].row))
             => \E r \in Rows(store) :
                   /\ r.fk_site = resolve_site(site[1])
                   /\ r.fk_range = rows[j].rc
                   /\ r.datetime = [k \in 1..6 |->
                                      IF k = 6 THEN 0 ELSE rows[j].row[TimeCols[k]].n]

\* C9: the observations the store held before a call are still there, once
\* each, and no row of the store or of the open transaction has the triple of
\* one of them with other values; a call aborts only on a row it cannot read.
C9_NoUpdateInPlace ==
  /\ \A r \in Rows(before[1]) :
        /\ CopiesIn(r, store) = CopiesIn(r, before[1])
        /\ \A r2 \in Rows(store) \cup Rows(tx[1]) : SameTriple(r, r2) => r2 = r
  /\ outcome[1] = "aborted" =>
        \E i \in 1..Len(TableRows(1)) :
           get_time(TableRows(1)[i].row).st = "overflow"

\* C9 witness: a committed call had a candidate whose triple the store already
\* held with another height.
C9_Witness ==
  /\ pc[1] = "done" /\ outcome[1] = "ok"
  /\ \E i \in 1..Len(TableRows(1)) :
        LET c == row_candidate(resolve_site(site[1]), TableRows(1)[i].rc,
                               TableRows(1)[i].row)
        IN /\ c.st = "ok"
           /\ \E r \in Rows(before[1]) :
                 SameTriple(r, c.params) /\ r.height # c.params.height

\* C10: the constructor of Wave never raises, whatever the lines of the file.
C10_DecodeNeverRaises ==
  Constructed(1) => (wave[1].raised = "none" /\ outcome[1] # "raised")

\* the (start, end) positions of the marker pairs of f: a %TableStart and the
\* first %TableEnd after it, with no other marker between the two
MatchedPairs(f) ==
  { q \in (1..Len(f)) \X (1..Len(f)) :
      /\ q[1] < q[2]
      /\ f[q[1]].k = "start" /\ f[q[2]].k = "end"
      /\ \A m \in (q[1] + 1)..(q[2] - 1) : f[m].k \notin {"start", "end"} }

\* one block per marker pair, in the order of the file, holding the lines
\* strictly between the two markers
MatchedBlocks(f) ==
  [n \in 1..Cardinality(MatchedPairs(f)) |->
     LET q == CHOOSE q \in MatchedPairs(f) :
                Cardinality({r \in MatchedPairs(f) : r[2] < q[2]}) = n - 1
     IN SubSeq(f, q[1] + 1, q[2] - 1)]

\* C11: when the scan for blocks runs (the file has its header line), the list
\* of table blocks is exactly one block per matched %TableStart ... %TableEnd
\* pair with the lines strictly between them; an unmatched %TableStart gives no
\* block, and a %TableEnd with no open block adds none and repeats none.
C11_BlockExtraction ==
  (Constructed(1) /\ HasTypesLine(file[1])) =>
     table_blocks(file[1]) = MatchedBlocks(file[1])

\* the INSERT statements a call executes on the rows from the i-th on, after
\* those in acc, when the store held `held` at its start: one per row that is
\* read and not found present, up to the row (if any) that ends the loops
RECURSIVE inserts_of(_, _, _, _, _)
inserts_of(id_site, rows, i, held, acc) ==
  IF i > Len(rows) THEN acc
  ELSE LET c == row_candidate(id_site, rows[i].rc, rows[i].row)
       IN IF c.st = "overflow" THEN acc
          ELSE IF c.st = "ok" /\ ~select_exists(held (+) acc, c.params)
          THEN inserts_of(id_site, rows, i + 1, held, acc (+) SetToBag({c.params}))
          ELSE inserts_of(id_site, rows, i + 1, held, acc)

CallInserts(p) ==
  inserts_of(resolve_site(site[p]), TableRows(p), 1, before[p], EmptyBag)

\* C12: no insert of a call is in the store while its loops run; after a store
\* error the store is as it was before the call; and a call that went through
\* its loops and ended without a store error has left all its inserts in the
\* store, added together.
C12_WholeLoadAtomic ==
  /\ pc[1] \in {"rows", "insert"} => store = before[1]
  /\ (pc[1] = "done" /\ outcome[1] = "dberror") =>
        (store = before[1] /\ tx[1] = EmptyBag)
  /\ (pc[1] = "done" /\ outcome[1] \in {"ok", "aborted"}) =>
        (store = before[1] (+) CallInserts(1) /\ tx[1] = EmptyBag)


====
